---- MODULE Spec2Model ----
(***************************************************************************)
(* The three feed scrapers of bennokress/rss-feeds (Augsburger Panther,    *)
(* Homey App Store - New Apps, Komood Store) as one state machine.  A      *)
(* behaviour fixes one scraper and runs its main() repeatedly against a    *)
(* stored list (articles.tsv), a listing that may change between runs and  *)
(* detail pages that may fail.                                             *)
(* SpecKomood is one run of the Komood scraper with a fair pagination      *)
(* loop; SpecClean applies clean_product_id to the handles of a bounded    *)
(* set.                                                                    *)
(*                                                                         *)
(* Strings whose structure the code inspects are records or sequences of   *)
(* tokens; the empty string of a free-text field is "".                    *)
(***************************************************************************)
EXTENDS Integers, Sequences, FiniteSets, TLC

VARIABLES
    scraper,          \* which scraper.py this behaviour runs
    store,            \* the list the latest save_* call was given
    run,              \* number of the current run of main(), also its "now"
    pc,               \* position inside main()
    listing,          \* the document the run fetched (HTML listing / API pages)
    existing,         \* main: existing
    new_articles,     \* Panther main: new_articles
    new_app_urls,     \* Homey main: new_app_urls
    new_apps,         \* Homey main: new_apps
    all_products,     \* Komood fetch_all_products: all_products
    new_products,     \* Komood main: new_products
    page,             \* Komood fetch_all_products: page
    requested,        \* Komood: pages requested by this run
    fetch_failed,     \* Komood: a page fetch of this run raised
    merged,           \* main: merged
    needing,          \* Panther main: articles_needing_content (positions in merged)
    idx,              \* position of the current for loop in its list
    stopped,          \* parse_news_items / parse_new_apps: the loop has ended
    attempt,          \* *_with_retry: attempt
    sleeps,           \* *_with_retry: time.sleep(2) calls of the latest call
    outcome,          \* *_with_retry: what the latest attempt did ("": none yet)
    attempted,        \* ids handed to *_with_retry in this run, in call order
    failed,           \* ids for which *_with_retry returned None in this run
    updated_articles, \* Panther main: updated_articles (positions in merged)
    saves,            \* save_* calls of this run
    feed,             \* entries of the feed.xml this run rendered
    exit_code,        \* sys.exit status of this run (-1: none yet)
    same_listing,     \* this run fetched the document the previous run fetched
    prev_all_ok,      \* the previous run completed with every enrichment succeeding
    prev_fits,        \* the previous run met no cap (discovery, truncation)
    prev_failed,      \* the new items whose enrichment failed in the previous run
    raw_handle,       \* Komood fetch_all_products: handle, the handle under study
    product_ids       \* Komood fetch_all_products: product_id, of the handle as it
                      \* is, with the sold-out marker and with the format suffix

vars == <<scraper, store, run, pc, listing, existing, new_articles, new_app_urls,
          new_apps, all_products, new_products, page, requested, fetch_failed,
          merged, needing, idx, stopped, attempt, sleeps, outcome, attempted, failed,
          updated_articles, saves, feed, exit_code, same_listing, prev_all_ok,
          prev_fits, prev_failed,
          raw_handle, product_ids>>

----------------------------------------------------------------------------
(* Bounds of the model *)

\* ids 1..MaxId are the entries whose pages may fail in every way
MaxId == 2
\* longest freely composed listing (entries per listing, products per page)
MaxLen == 2
\* longest freely composed stored list
MaxStore == 1
\* runs of main() per behaviour
MaxRuns == 2

(* Program constants *)
MAX_ARTICLES == 50
MAX_APPS == 50
MAX_RETRIES == 3
PAGE_LIMIT == 50

----------------------------------------------------------------------------
(* Sequences *)

Take(s, n) == SubSeq(s, 1, IF Len(s) < n THEN Len(s) ELSE n)

Range(s) == {s[i] : i \in 1..Len(s)}

SeqsUpTo(S, n) == UNION {[1..k -> S] : k \in 0..n}

NoDuplicates(s) == \A i, j \in 1..Len(s) : i # j => s[i] # s[j]

IsPrefix(s, t) == Len(s) <= Len(t) /\ s = SubSeq(t, 1, Len(s))

SmallIds == 1..MaxId
\* ids of the filler rows of a long stored list
PadIds == {100 + i : i \in 1..MAX_ARTICLES}
\* ids of the entries of a long listing
LongIds == {200 + i : i \in 1..(MAX_ARTICLES + 1)}

----------------------------------------------------------------------------
(* articles.tsv: csv.writer and csv.DictReader with delimiter="\t" *)

\* The text of a field or a line is a sequence of tokens: a token is one of
\* the characters the csv module treats specially, or a run of other characters.
QUOTE == "\""
TAB == "\t"
CR == "\r"
LF == "\n"

\* csv.writer, QUOTE_MINIMAL: a field is quoted when it holds the delimiter,
\* the quotechar or a character of the lineterminator
NeedsQuotes(field) == \E i \in 1..Len(field) : field[i] \in {TAB, QUOTE, CR, LF}

\* csv.writer, doublequote=True: every quotechar of a quoted field is doubled
RECURSIVE double_quotes(_)
double_quotes(field) ==
    IF field = << >> THEN << >>
    ELSE (IF Head(field) = QUOTE THEN <<QUOTE, QUOTE>> ELSE <<Head(field)>>)
         \o double_quotes(Tail(field))

\* write_field that never quotes
write_field_unquoted(field) == field

write_field(field) ==
    IF NeedsQuotes(field) THEN <<QUOTE>> \o double_quotes(field) \o <<QUOTE>>
    ELSE field

\* writer.writerow: the fields joined by the delimiter (the line terminator
\* is not part of the line's text here)
RECURSIVE writerow(_)
writerow(fields) ==
    IF fields = << >> THEN << >>
    ELSE IF Len(fields) = 1 THEN write_field(fields[1])
    ELSE write_field(Head(fields)) \o <<TAB>> \o writerow(Tail(fields))

\* csv.reader on one record: the parser's states are the start of a field,
\* inside an unquoted field, inside a quoted field, and after a quotechar
\* inside a quoted field
RECURSIVE read_record(_, _, _, _, _)
read_record(text, i, state, field, fields) ==
    IF i > Len(text)
    THEN IF text = << >> THEN << >> ELSE Append(fields, field)
    ELSE LET c == text[i] IN
         IF state = "start"
         THEN IF c = QUOTE THEN read_record(text, i + 1, "quoted", << >>, fields)
              ELSE IF c = TAB
              THEN read_record(text, i + 1, "start", << >>, Append(fields, << >>))
              ELSE read_record(text, i + 1, "field", <<c>>, fields)
         ELSE IF state = "field"
         THEN IF c = TAB
              THEN read_record(text, i + 1, "start", << >>, Append(fields, field))
              ELSE read_record(text, i + 1, "field", Append(field, c), fields)
         ELSE IF state = "quoted"
         THEN IF c = QUOTE THEN read_record(text, i + 1, "quote", field, fields)
              ELSE read_record(text, i + 1, "quoted", Append(field, c), fields)
         ELSE IF c = QUOTE
              THEN read_record(text, i + 1, "quoted", Append(field, QUOTE), fields)
              ELSE IF c = TAB
              THEN read_record(text, i + 1, "start", << >>, Append(fields, field))
              ELSE read_record(text, i + 1, "field", Append(field, c), fields)

read_row(text) == read_record(text, 1, "start", << >>, << >>)

\* csv.DictReader: the value of the k-th column of a row (a row shorter than
\* the header has no text there), and the rows left after the empty ones
\* are skipped
Column(row, k) == IF k <= Len(row) THEN row[k] ELSE << >>

DictReader(file) ==
    LET rows == [i \in 1..Len(file) |-> read_row(file[i])]
    IN SelectSeq(rows, LAMBDA row : row # << >>)

\* The free-text values of the model and their characters: a description with
\* a line break in it, one that starts with a quotation mark, a title with a
\* tab in it
TextWithLineBreak == "a" \o LF \o "b"
TextWithQuote == QUOTE \o "d"
TextWithTab == "a" \o TAB \o "b"

Chars(str) ==
    IF str = "" THEN << >>
    ELSE IF str = TextWithLineBreak THEN <<"a", LF, "b">>
    ELSE IF str = TextWithQuote THEN <<QUOTE, "d">>
    ELSE IF str = TextWithTab THEN <<"a", TAB, "b">>
    ELSE <<str>>

RECURSIVE Join(_)
Join(text) == IF text = << >> THEN "" ELSE Head(text) \o Join(Tail(text))

\* the number a text is the decimal form of (-1: of none in the set)
Number(text, domain) ==
    IF Len(text) = 1 /\ \E n \in domain : ToString(n) = text[1]
    THEN CHOOSE n \in domain : ToString(n) = text[1]
    ELSE -1

AllIds == {0} \cup SmallIds \cup PadIds \cup LongIds

----------------------------------------------------------------------------
(* Augsburger Panther *)

\* A URL or href of the site: http says that the string starts with "http"
\* (BASE_URL + path), otherwise the string is the bare path.
PantherUrl(n) == [http |-> TRUE, path |-> n]

\* parse_news_items, lines 70-72: url = href, made absolute with BASE_URL
AbsoluteUrl(href) == IF href.http THEN href ELSE [http |-> TRUE, path |-> href.path]

\* german_date_to_iso: "DD.MM.YYYY" as <<DD, MM, YYYY>>, "" as << >>
german_date_to_iso(date_str) ==
    IF date_str = << >> THEN << >>
    ELSE IF Len(date_str) = 3
         THEN <<date_str[3], date_str[2], date_str[1]>>
         ELSE date_str

\* the text of a date span the regular expression of line 89 matches:
\* "03.02.2024 | 10:00 Uhr"
DateText == <<"03", "02", "2024", "10:00">>

\* a div.news-item: whether it holds a link, the link's href, the number of
\* spans in div.newsitem_link and the text of the first two
NewsItem(link, http, n, spans, date_text, title) ==
    [link |-> link, href |-> [http |-> http, path |-> n], spans |-> spans,
     date_text |-> date_text, title |-> title]

PantherItems ==
    {NewsItem(FALSE, FALSE, 0, 0, << >>, "")}
    \cup {NewsItem(TRUE, h, n, 2, DateText, "t") : h \in BOOLEAN, n \in SmallIds}
    \cup {NewsItem(TRUE, FALSE, n, 0, << >>, "") : n \in SmallIds}
    \cup {NewsItem(TRUE, FALSE, 1, 2, << >>, TextWithTab)}

\* a news page with more than MAX_ARTICLES entries, all different
PantherLongListing ==
    [i \in 1..(MAX_ARTICLES + 1) |-> NewsItem(TRUE, FALSE, 200 + i, 2, DateText, "t")]

\* a new article above a stored one above an article the store never held
PantherOldBelowKnown ==
    <<NewsItem(TRUE, FALSE, 2, 2, DateText, "t"),
      NewsItem(TRUE, FALSE, 1, 2, DateText, "t"),
      NewsItem(TRUE, FALSE, 201, 2, DateText, "t")>>

PantherListings ==
    SeqsUpTo(PantherItems, MaxLen) \cup {PantherLongListing, PantherOldBelowKnown}

\* parse_news_item with `continue` where line 77 has `break`
parse_news_item_continue(item, existing_urls, st) ==
    IF st.stopped THEN st
    ELSE IF ~item.link THEN st
    ELSE LET url == AbsoluteUrl(item.href) IN
         IF url \in existing_urls THEN st
         ELSE LET date_text == IF item.spans >= 2 THEN item.date_text ELSE << >>
                  title == IF item.spans >= 2 THEN item.title ELSE ""
                  date_match == Len(date_text) = 4
                  date_str == IF date_match
                              THEN german_date_to_iso(SubSeq(date_text, 1, 3))
                              ELSE << >>
                  time_str == IF date_match THEN date_text[4] ELSE ""
                  found == Append(st.articles, [date |-> date_str, time |-> time_str,
                                                title |-> title, url |-> url])
              IN IF title # ""
                 THEN [articles |-> found, stopped |-> Len(found) >= MAX_ARTICLES]
                 ELSE st

\* parse_news_item without the stop of lines 101-104
parse_news_item_uncapped(item, existing_urls, st) ==
    IF st.stopped THEN st
    ELSE IF ~item.link THEN st
    ELSE LET url == AbsoluteUrl(item.href) IN
         IF url \in existing_urls THEN [st EXCEPT !.stopped = TRUE]
         ELSE LET date_text == IF item.spans >= 2 THEN item.date_text ELSE << >>
                  title == IF item.spans >= 2 THEN item.title ELSE ""
                  date_match == Len(date_text) = 4
                  date_str == IF date_match
                              THEN german_date_to_iso(SubSeq(date_text, 1, 3))
                              ELSE << >>
                  time_str == IF date_match THEN date_text[4] ELSE ""
                  found == Append(st.articles, [date |-> date_str, time |-> time_str,
                                                title |-> title, url |-> url])
              IN IF title # ""
                 THEN [articles |-> found, stopped |-> FALSE]
                 ELSE st

\* parse_news_items, the body of the loop of lines 65-104 for one item; st is
\* the list collected so far and whether a break has left the loop
parse_news_item(item, existing_urls, st) ==
    IF st.stopped THEN st
    ELSE IF ~item.link THEN st
    ELSE LET url == AbsoluteUrl(item.href) IN
         IF url \in existing_urls THEN [st EXCEPT !.stopped = TRUE]
         ELSE LET date_text == IF item.spans >= 2 THEN item.date_text ELSE << >>
                  title == IF item.spans >= 2 THEN item.title ELSE ""
                  date_match == Len(date_text) = 4
                  date_str == IF date_match
                              THEN german_date_to_iso(SubSeq(date_text, 1, 3))
                              ELSE << >>
                  time_str == IF date_match THEN date_text[4] ELSE ""
                  found == Append(st.articles, [date |-> date_str, time |-> time_str,
                                                title |-> title, url |-> url])
              IN IF title # ""
                 THEN [articles |-> found, stopped |-> Len(found) >= MAX_ARTICLES]
                 ELSE st

\* main, lines 319-322
new_article_dicts(articles) ==
    [i \in 1..Len(articles) |->
        [date |-> articles[i].date, time |-> articles[i].time,
         title |-> articles[i].title, url |-> articles[i].url,
         description |-> "", image |-> ""]]

\* Merge with the stored rows in front
MergeOldFirst(new, old) == old \o new

\* main, line 323 (Panther), 345 (Homey), 262 (Komood)
Merge(new, old) == new \o old

\* TrimArticles without the slice
TrimNothing(list) == list

\* main, line 326 (Panther)
TrimArticles(list) == Take(list, MAX_ARTICLES)

\* articles_needing_content without the test of the description
articles_needing_content_all(list) == [k \in 1..Len(list) |-> k]

\* main, line 330: the positions in merged of the rows without description, in
\* list order
articles_needing_content(list) ==
    LET P == {i \in 1..Len(list) : list[i].description = ""}
    IN [k \in 1..Cardinality(P) |->
            CHOOSE i \in P : Cardinality({j \in P : j < i}) = k - 1]

\* what fetch_article_content can do for a url: raise, or return (text, image)
ArticleContents(url) ==
    IF url.path \in SmallIds
    THEN {[raised |-> TRUE, description |-> "", image |-> ""],
          [raised |-> FALSE, description |-> "", image |-> "i"],
          [raised |-> FALSE, image |-> "i",
           description |-> IF url.path = 2 THEN TextWithLineBreak ELSE "d"]}
    ELSE {[raised |-> FALSE, description |-> "d", image |-> "i"]}

\* generate_rss_feed, line 283 (Homey 286, Komood 223): the entries of the
\* feed after fg.add_entry() was called once per element of ids, in turn.
\* add_entry() is called without `order`, and feedgen's default, 'prepend',
\* inserts the new entry in front of the entries added before.
add_entries(ids) == [i \in 1..Len(ids) |-> ids[Len(ids) + 1 - i]]

\* generate_rss_feed, lines 278-296: the ids of the entries of feed.xml, in
\* document order
PantherFeed(articles) ==
    LET with_description == SelectSeq(articles, LAMBDA a : a.description # "")
    IN add_entries([i \in 1..Len(with_description) |-> with_description[i].url])

\* main, lines 367-375
PantherExit(updated) == IF updated # << >> THEN 0 ELSE 1

\* a row of articles.tsv
Article(n, description) ==
    [date |-> <<"2024", "02", "03">>, time |-> "10:00", title |-> "t",
     url |-> PantherUrl(n), description |-> description,
     image |-> IF description = "" THEN "" ELSE "i"]

\* the stored lists a behaviour may start from: ids unique, within the cap
PadStore(k) == [i \in 1..k |-> Article(100 + i, "d")]

PantherSmallStores ==
    {s \in SeqsUpTo({Article(n, d) : n \in SmallIds, d \in {"", "d"}}, MaxStore) :
        \A i, j \in 1..Len(s) : i # j => s[i].url # s[j].url}

PantherStores ==
    {PadStore(k) \o s : k \in {0, MAX_ARTICLES - MaxStore}, s \in PantherSmallStores}

----------------------------------------------------------------------------
(* Homey App Store - New Apps *)

\* An href or URL "<site>/en-us/app/<id>" of an app: rel says that the string
\* starts with "/" (no "https://homey.app" in front), slash that it ends with "/".
AppHref(rel, n, slash) == [rel |-> rel, id |-> n, slash |-> slash]

\* parse_new_apps, lines 101-102
MakeAbsolute(href) == IF href.rel THEN [href EXCEPT !.rel = FALSE] ELSE href

\* parse_new_apps, line 106, fetch_app_details, line 175:
\* url.split("/app/")[1].rstrip("/")
AppId(url) == url.id

\* to_locale_agnostic_url: "https://homey.app/a/<id>"
to_locale_agnostic_url(url) == [a |-> url.id]

HomeyHrefs ==
    {AppHref(rel, n, TRUE) : rel \in BOOLEAN, n \in SmallIds}
    \cup {AppHref(FALSE, 1, FALSE)}

\* the listing page: whether a "New apps" section is found (lines 64-92) and
\* the hrefs of its a[href*='/app/'] links
HomeyLongListing ==
    [section |-> TRUE,
     links |-> [i \in 1..(MAX_APPS + 1) |-> AppHref(TRUE, 200 + i, TRUE)]]

HomeyListings ==
    {[section |-> TRUE, links |-> l] : l \in SeqsUpTo(HomeyHrefs, MaxLen)}
    \cup {[section |-> FALSE, links |-> <<AppHref(TRUE, 1, TRUE)>>]}
    \cup {HomeyLongListing}

\* parse_new_apps_link without the check of lines 109-111
parse_new_apps_link_known_too(link, existing_ids, st) ==
    IF st.stopped THEN st
    ELSE LET href == MakeAbsolute(link)
             found == IF href \notin Range(st.urls)
                      THEN Append(st.urls, href) ELSE st.urls
         IN [urls |-> found, stopped |-> Len(found) >= MAX_APPS]

\* parse_new_apps, the body of the loop of lines 95-120 for one link; st is
\* the list collected so far and whether a break has left the loop
parse_new_apps_link(link, existing_ids, st) ==
    IF st.stopped THEN st
    ELSE LET href == MakeAbsolute(link)
             app_id == AppId(href)
         IN IF app_id \in existing_ids THEN st
            ELSE LET found == IF href \notin Range(st.urls)
                              THEN Append(st.urls, href) ELSE st.urls
                 IN [urls |-> found, stopped |-> Len(found) >= MAX_APPS]

\* what fetch_app_details can do for a url: raise, return None (no name), or
\* return the details
AppDetails(url) ==
    LET details(description) ==
            [raised |-> FALSE, none |-> FALSE, id |-> AppId(url), name |-> "n",
             description |-> description, image |-> "i", developer |-> "v"]
        nothing(raised) ==
            [raised |-> raised, none |-> ~raised, id |-> AppId(url), name |-> "",
             description |-> "", image |-> "", developer |-> ""]
    IN IF AppId(url) \in SmallIds
       THEN {nothing(TRUE), nothing(FALSE), details(""),
             details(IF AppId(url) = 2 THEN TextWithQuote ELSE "d")}
       ELSE {details("d")}

\* main, lines 334-337: the row made of the details
AppRow(details, url, now) ==
    [id |-> details.id, name |-> details.name, description |-> details.description,
     url |-> url, image |-> details.image, developer |-> details.developer,
     timestamp |-> now]

\* main, line 348
TrimApps(list) == Take(list, MAX_APPS)

\* generate_rss_feed, lines 281-307: the ids of the entries of feed.xml, in
\* document order
HomeyFeed(apps) ==
    LET with_name == SelectSeq(apps, LAMBDA a : a.name # "")
    IN add_entries([i \in 1..Len(with_name) |->
                        to_locale_agnostic_url(with_name[i].url)])

\* main, lines 361-369
HomeyExit(apps) == IF apps # << >> THEN 0 ELSE 1

\* a row of articles.tsv, written by an earlier run
App(n, description) ==
    [id |-> n, name |-> "n", description |-> description,
     url |-> AppHref(FALSE, n, TRUE), image |-> "i", developer |-> "v",
     timestamp |-> 0]

PadApps(k) == [i \in 1..k |-> App(100 + i, "d")]

HomeySmallStores ==
    {s \in SeqsUpTo({App(n, d) : n \in SmallIds, d \in {"", "d"}}, MaxStore) :
        \A i, j \in 1..Len(s) : i # j => s[i].id # s[j].id}

HomeyStores ==
    {PadApps(k) \o s : k \in {0, MAX_APPS - MaxStore}, s \in HomeySmallStores}

\* the listing shows at most MAX_APPS different links of apps not in the store
HomeyFits(html, rows) ==
    LET existing_ids == {rows[i].id : i \in 1..Len(rows)}
        unknown == {MakeAbsolute(html.links[i]) : i \in 1..Len(html.links)}
    IN ~html.section
       \/ Cardinality({u \in unknown : AppId(u) \notin existing_ids}) <= MAX_APPS

----------------------------------------------------------------------------
(* Komood Store *)

\* Handles and titles are sequences of tokens, "" is << >>.
StartsWith(str, prefix) ==
    Len(str) >= Len(prefix) /\ SubSeq(str, 1, Len(prefix)) = prefix

EndsWith(str, suffix) ==
    Len(str) >= Len(suffix)
    /\ SubSeq(str, Len(str) - Len(suffix) + 1, Len(str)) = suffix

RemovePrefix(str, prefix) == SubSeq(str, Len(prefix) + 1, Len(str))

RemoveSuffix(str, suffix) == SubSeq(str, 1, Len(str) - Len(suffix))

\* "ausverkauft-" and "-t-shirt"
SoldOutPrefix == <<"ausverkauft", "-">>
ShirtSuffix == <<"-", "t", "-", "shirt">>

\* clean_product_id without lines 43-44
clean_product_id_suffix_only(handle) ==
    LET cleaned == handle
    IN IF EndsWith(cleaned, ShirtSuffix)
       THEN RemoveSuffix(cleaned, ShirtSuffix) ELSE cleaned

\* clean_product_id, lines 42-47
clean_product_id(handle) ==
    LET cleaned == IF StartsWith(handle, SoldOutPrefix)
                   THEN RemovePrefix(handle, SoldOutPrefix) ELSE handle
    IN IF EndsWith(cleaned, ShirtSuffix)
       THEN RemoveSuffix(cleaned, ShirtSuffix) ELSE cleaned

\* fetch_all_products, lines 82-87
clean_title(title) ==
    LET unsold == IF StartsWith(title, <<"AUSVERKAUFT: ">>)
                  THEN RemovePrefix(title, <<"AUSVERKAUFT: ">>) ELSE title
    IN IF EndsWith(unsold, <<" - T-Shirt">>)
       THEN RemoveSuffix(unsold, <<" - T-Shirt">>)
       ELSE IF EndsWith(unsold, <<" - T-shirt">>)
            THEN RemoveSuffix(unsold, <<" - T-shirt">>)
            ELSE unsold

\* fetch_all_products, lines 101-107: the price as "<euro sign><euros>,<cents>"
format_price(price_cents) ==
    IF price_cents # 0
    THEN "EUR" \o ToString(price_cents \div 100) \o ","
         \o (IF price_cents % 100 < 10 THEN "0" ELSE "") \o ToString(price_cents % 100)
    ELSE ""

\* fetch_all_products, lines 117-125: the description made of the price and
\* the stripped body_html, as a sequence of tokens
product_description(price, description_text) ==
    IF price # "" /\ description_text # ""
    THEN <<price, " * ", description_text>>
    ELSE IF price # "" THEN <<price>>
    ELSE IF description_text # "" THEN <<description_text>>
    ELSE << >>

\* fetch_all_products, lines 74-144: the products of one page appended to the list
RECURSIVE parse_products(_, _, _)
parse_products(products, i, found) ==
    IF i > Len(products) THEN found
    ELSE LET product == products[i]
             product_id == clean_product_id(product.handle)
             title == clean_title(product.title)
             row == [id |-> product_id, title |-> title,
                     description |-> product_description(format_price(product.price),
                                                         product.body),
                     url |-> product.handle, image |-> product.image]
         IN parse_products(products, i + 1,
                           IF product_id # << >> /\ title # << >>
                           THEN Append(found, row) ELSE found)

\* find_new_products without the test of line 255
find_new_products_all(products, existing_ids, now) ==
    [i \in 1..Len(products) |->
        [id |-> products[i].id, title |-> products[i].title,
         description |-> products[i].description, url |-> products[i].url,
         image |-> products[i].image, timestamp |-> now]]

\* main, lines 252-257
find_new_products(products, existing_ids, now) ==
    LET fresh == SelectSeq(products, LAMBDA p : p.id \notin existing_ids)
    IN [i \in 1..Len(fresh) |->
            [id |-> fresh[i].id, title |-> fresh[i].title,
             description |-> fresh[i].description, url |-> fresh[i].url,
             image |-> fresh[i].image, timestamp |-> now]]

\* generate_rss_feed, lines 218-236: the ids of the entries of feed.xml, in
\* document order
KomoodFeed(products) ==
    LET with_description == SelectSeq(products, LAMBDA p : p.description # << >>)
    IN add_entries([i \in 1..Len(with_description) |-> with_description[i].url])

\* main, lines 275-283
KomoodExit(products) == IF products # << >> THEN 0 ELSE 1

\* a product of the API
Product(handle, title, price, body) ==
    [handle |-> handle, title |-> title, price |-> price, body |-> body,
     image |-> "i"]

KomoodProducts ==
    {Product(<<ToString(n)>>, <<"T">>, 999, "b") : n \in SmallIds}
    \cup {Product(SoldOutPrefix \o <<ToString(n)>> \o ShirtSuffix,
                  <<"AUSVERKAUFT: ", "T", " - T-Shirt">>, 999, "") : n \in SmallIds}
    \cup {Product(<<"1">>, <<"T", QUOTE>>, 0, ""),
          Product(<< >>, <<"T">>, 999, "b"),
          Product(<<"1">>, <<"AUSVERKAUFT: ">>, 999, "b")}

\* the API as a run finds it: its pages, and the page whose fetch raises (0: none)
Api(pages, error_at) == [pages |-> pages, error_at |-> error_at]

Splits(products) ==
    {<<SubSeq(products, 1, k), SubSeq(products, k + 1, Len(products))>> :
        k \in 0..Len(products)}

\* more non-empty pages than the page limit
KomoodLongApi ==
    Api([i \in 1..(PAGE_LIMIT + 1) |->
            <<Product(<<ToString(200 + i)>>, <<"T">>, 999, "b")>>], 0)

\* a stored product and a new one on page 1, a new one on page 2, page 3 empty
KomoodThreePages ==
    Api(<<<<Product(<<"1">>, <<"T">>, 999, "b"), Product(<<"2">>, <<"T">>, 999, "b")>>,
          <<Product(<<"201">>, <<"T">>, 999, "b")>>,
          << >>>>, 0)

KomoodApis ==
    {Api(pages, e) : pages \in UNION {Splits(l) : l \in SeqsUpTo(KomoodProducts, MaxLen)},
                     e \in 0..2}
    \cup {KomoodLongApi, KomoodThreePages}

\* a row of articles.tsv, written by an earlier run
ProductRow(n, description) ==
    [id |-> <<ToString(n)>>, title |-> <<"T">>, description |-> description,
     url |-> <<ToString(n)>>, image |-> "i", timestamp |-> 0]

KomoodStores ==
    {s \in SeqsUpTo({ProductRow(n, d) : n \in SmallIds, d \in {<< >>, <<"b">>}}, MaxStore) :
        \A i, j \in 1..Len(s) : i # j => s[i].id # s[j].id}

----------------------------------------------------------------------------
(* load_existing_* and save_* *)

\* Panther: the ISO date "YYYY-MM-DD" of a row, the URL of an article
date_text(date) ==
    IF Len(date) = 3 THEN <<date[1], "-", date[2], "-", date[3]>> ELSE date

date_of(text) ==
    IF Len(text) = 5 /\ text[2] = "-" /\ text[4] = "-"
    THEN <<text[1], text[3], text[5]>>
    ELSE text

url_text(url) ==
    (IF url.http THEN <<"https://www.aev-panther.de">> ELSE << >>)
    \o <<ToString(url.path)>>

url_of(text) ==
    LET http == text # << >> /\ text[1] = "https://www.aev-panther.de"
    IN [http |-> http,
        path |-> Number(IF http THEN Tail(text) ELSE text, AllIds)]

\* save_articles, lines 136-143: the fields of one row
article_fields(article) ==
    <<date_text(article.date), Chars(article.time), Chars(article.title),
      url_text(article.url), Chars(article.description), Chars(article.image)>>

\* load_existing_articles, lines 119-126: the dict made of one row
article_of(row) ==
    [date |-> date_of(Column(row, 1)), time |-> Join(Column(row, 2)),
     title |-> Join(Column(row, 3)), url |-> url_of(Column(row, 4)),
     description |-> Join(Column(row, 5)), image |-> Join(Column(row, 6))]

save_articles(articles) ==
    [i \in 1..Len(articles) |-> writerow(article_fields(articles[i]))]

load_existing_articles(file) ==
    LET rows == DictReader(file)
    IN [i \in 1..Len(rows) |-> article_of(rows[i])]

\* Homey: the URL of an app
href_text(url) ==
    (IF url.rel THEN << >> ELSE <<"https://homey.app">>)
    \o <<"/en-us/app/", ToString(url.id)>>
    \o (IF url.slash THEN <<"/">> ELSE << >>)

href_of(text) ==
    LET rel == ~(text # << >> /\ text[1] = "https://homey.app")
        path == IF rel THEN text ELSE Tail(text)
        slash == Len(path) = 3 /\ path[3] = "/"
    IN [rel |-> rel,
        id |-> IF Len(path) >= 2 /\ path[1] = "/en-us/app/"
               THEN Number(<<path[2]>>, AllIds) ELSE -1,
        slash |-> slash]

\* save_apps, lines 153-161: the fields of one row
app_fields(app) ==
    <<<<ToString(app.id)>>, Chars(app.name), Chars(app.description),
      href_text(app.url), Chars(app.image), Chars(app.developer),
      <<ToString(app.timestamp)>>>>

\* load_existing_apps, lines 135-143: the dict made of one row
app_of(row) ==
    [id |-> Number(Column(row, 1), AllIds), name |-> Join(Column(row, 2)),
     description |-> Join(Column(row, 3)), url |-> href_of(Column(row, 4)),
     image |-> Join(Column(row, 5)), developer |-> Join(Column(row, 6)),
     timestamp |-> Number(Column(row, 7), 0..MaxRuns)]

save_apps(apps) == [i \in 1..Len(apps) |-> writerow(app_fields(apps[i]))]

load_existing_apps(file) ==
    LET rows == DictReader(file)
    IN [i \in 1..Len(rows) |-> app_of(rows[i])]

\* save_products, lines 183-190: the fields of one row
product_fields(product) ==
    <<product.id, product.title, product.description, product.url,
      Chars(product.image), <<ToString(product.timestamp)>>>>

\* load_existing_products, lines 166-173: the dict made of one row
product_of(row) ==
    [id |-> Column(row, 1), title |-> Column(row, 2),
     description |-> Column(row, 3), url |-> Column(row, 4),
     image |-> Join(Column(row, 5)),
     timestamp |-> Number(Column(row, 6), 0..MaxRuns)]

save_products(products) ==
    [i \in 1..Len(products) |-> writerow(product_fields(products[i]))]

load_existing_products(file) ==
    LET rows == DictReader(file)
    IN [i \in 1..Len(rows) |-> product_of(rows[i])]

\* the file save_* writes for a list, the list load_existing_* reads of a file
SaveRows(s, list) ==
    IF s = "Panther" THEN save_articles(list)
    ELSE IF s = "Homey" THEN save_apps(list)
    ELSE save_products(list)

LoadRows(s, file) ==
    IF s = "Panther" THEN load_existing_articles(file)
    ELSE IF s = "Homey" THEN load_existing_apps(file)
    ELSE load_existing_products(file)

\* articles.tsv: the text of its data lines, as the latest save_* call wrote them
tsv == SaveRows(scraper, store)

----------------------------------------------------------------------------
(* Enrichment with retry *)

\* what one call of fetch_article_content did: it raised, returned an empty
\* description, or returned a description
article_outcome(r) ==
    IF r.raised THEN "raised" ELSE IF r.description = "" THEN "empty" ELSE "ok"

\* what one call of fetch_app_details did: it raised, returned None or no
\* name, or returned details with a name
details_outcome(r) ==
    IF r.raised THEN "raised" ELSE IF r.none \/ r.name = "" THEN "empty" ELSE "ok"

\* retry_step with `attempt <= MAX_RETRIES` in the test of lines 200 / 250
retry_step_once_more(result, n) ==
    IF result = "ok" THEN "return"
    ELSE IF n <= MAX_RETRIES THEN "sleep"
    ELSE "none"

\* fetch_article_content_with_retry, lines 191-203, and
\* fetch_app_details_with_retry, lines 241-253: what the loop does after the
\* attempt numbered n: return the result, sleep and go on, or return None
retry_step(result, n) ==
    IF result = "ok" THEN "return"
    ELSE IF n < MAX_RETRIES THEN "sleep"
    ELSE "none"

\* after_failed_item when the failure of an item is raised out of main
after_failed_item_raises == "crashed"

\* main, Panther lines 337-345, Homey lines 334-340: where the run is after
\* *_with_retry returned None for an item: in the loop, at the next item
after_failed_item == "enrich"

----------------------------------------------------------------------------
(* The runs *)

pantherVars == <<new_articles, needing, updated_articles>>
homeyVars == <<new_app_urls, new_apps>>
komoodVars == <<all_products, new_products, page, requested, fetch_failed>>
retryVars == <<idx, stopped, attempt, sleeps, outcome, attempted, failed>>
outVars == <<saves, feed, exit_code>>
histVars == <<same_listing, prev_all_ok, prev_fits, prev_failed>>
cleanVars == <<raw_handle, product_ids>>

Stores(s) ==
    IF s = "Panther" THEN PantherStores
    ELSE IF s = "Homey" THEN HomeyStores
    ELSE KomoodStores

Listings(s) == IF s = "Panther" THEN PantherListings ELSE HomeyListings

\* main() has not started
NotStarted ==
    /\ run = 1
    /\ pc = "start"
    /\ listing = << >>
    /\ existing = << >>
    /\ new_articles = << >>
    /\ new_app_urls = << >>
    /\ new_apps = << >>
    /\ all_products = << >>
    /\ new_products = << >>
    /\ page = 1
    /\ requested = 0
    /\ fetch_failed = FALSE
    /\ merged = << >>
    /\ needing = << >>
    /\ idx = 1
    /\ stopped = FALSE
    /\ attempt = 1
    /\ sleeps = 0
    /\ outcome = ""
    /\ attempted = << >>
    /\ failed = {}
    /\ updated_articles = << >>
    /\ saves = 0
    /\ feed = << >>
    /\ exit_code = -1
    /\ same_listing = FALSE
    /\ prev_all_ok = FALSE
    /\ prev_fits = FALSE
    /\ prev_failed = {}

Init ==
    /\ scraper \in {"Panther", "Homey", "Komood"}
    /\ store \in Stores(scraper)
    /\ NotStarted
    /\ raw_handle = << >>
    /\ product_ids = << >>

\* main: load_existing_articles / load_existing_apps / load_existing_products
Load ==
    /\ pc = "start"
    /\ existing' = LoadRows(scraper, tsv)
    /\ pc' = "loaded"
    /\ UNCHANGED <<scraper, store, run, listing, merged, pantherVars, homeyVars,
                   komoodVars, retryVars, outVars, histVars>>
    /\ UNCHANGED cleanVars

\* main: html = fetch_html(NEWS_URL) / fetch_html(LISTING_URL) returns a page
FetchListing ==
    /\ pc = "loaded"
    /\ scraper \in {"Panther", "Homey"}
    /\ \E html \in Listings(scraper) :
        /\ listing' = html
        /\ same_listing' = (run > 1 /\ html = listing)
    /\ pc' = "parse"
    /\ UNCHANGED <<scraper, store, run, existing, merged, pantherVars, homeyVars,
                   komoodVars, retryVars, outVars, prev_all_ok, prev_fits, prev_failed>>
    /\ UNCHANGED cleanVars

\* main: fetch_html raises (requests.get or raise_for_status); nothing catches
\* it, the interpreter ends the process with status 1
FetchListingRaises ==
    /\ pc = "loaded"
    /\ scraper \in {"Panther", "Homey"}
    /\ pc' = "crashed"
    /\ exit_code' = 1
    /\ UNCHANGED <<scraper, store, run, listing, existing, merged, pantherVars,
                   homeyVars, komoodVars, retryVars, saves, feed, histVars>>
    /\ UNCHANGED cleanVars

\* Panther parse_news_items, one iteration of the loop of lines 65-104
PantherParseItem ==
    /\ pc = "parse"
    /\ scraper = "Panther"
    /\ ~stopped
    /\ idx <= Len(listing)
    /\ LET existing_urls == {existing[i].url : i \in 1..Len(existing)}
           st == parse_news_item(listing[idx], existing_urls,
                                 [articles |-> new_articles, stopped |-> FALSE])
       IN /\ new_articles' = st.articles
          /\ stopped' = st.stopped
    /\ idx' = idx + 1
    /\ UNCHANGED <<scraper, store, run, pc, listing, existing, merged, needing,
                   updated_articles, attempt, sleeps, outcome, attempted, failed,
                   homeyVars,
                   komoodVars, outVars, histVars>>
    /\ UNCHANGED cleanVars

\* Panther main, lines 316-330: parse_news_items has returned; merge and trim
PantherMerge ==
    /\ pc = "parse"
    /\ scraper = "Panther"
    /\ stopped \/ idx > Len(listing)
    /\ LET list == TrimArticles(Merge(new_article_dicts(new_articles), existing))
       IN /\ merged' = list
          /\ needing' = articles_needing_content(list)
    /\ idx' = 1
    /\ stopped' = FALSE
    /\ pc' = "enrich"
    /\ UNCHANGED <<scraper, store, run, listing, existing, new_articles,
                   updated_articles, attempt, sleeps, outcome, attempted, failed,
                   homeyVars,
                   komoodVars, outVars, histVars>>
    /\ UNCHANGED cleanVars

\* Panther main, lines 335-345, one attempt of fetch_article_content_with_retry
\* (lines 191-203) for the article the loop is at
PantherAttempt ==
    /\ pc = "enrich"
    /\ scraper = "Panther"
    /\ idx <= Len(needing)
    /\ LET at == needing[idx]
           url == merged[at].url
       IN \E r \in ArticleContents(url) :
           /\ attempted' = IF attempt = 1 THEN Append(attempted, url) ELSE attempted
           /\ outcome' = article_outcome(r)
           /\ LET step == retry_step(article_outcome(r), attempt)
                  slept == IF attempt = 1 THEN 0 ELSE sleeps
              IN IF step = "return"
                 THEN /\ merged' = [merged EXCEPT ![at].description = r.description,
                                                  ![at].image = r.image]
                      /\ updated_articles' = Append(updated_articles, at)
                      /\ idx' = idx + 1
                      /\ attempt' = 1
                      /\ sleeps' = slept
                      /\ UNCHANGED <<failed, pc>>
                 ELSE IF step = "sleep"
                 THEN /\ attempt' = attempt + 1
                      /\ sleeps' = slept + 1
                      /\ UNCHANGED <<merged, updated_articles, idx, failed, pc>>
                 ELSE /\ idx' = idx + 1
                      /\ attempt' = 1
                      /\ sleeps' = slept
                      /\ failed' = failed \cup {url}
                      /\ pc' = after_failed_item
                      /\ UNCHANGED <<merged, updated_articles>>
    /\ UNCHANGED <<scraper, store, run, listing, existing, new_articles, needing,
                   stopped, homeyVars, komoodVars, outVars, histVars>>
    /\ UNCHANGED cleanVars

\* Panther main, lines 357-375: save_articles, generate_rss_feed, sys.exit
\* (the webhook calls of lines 349-355 change nothing here)
PantherFinish ==
    /\ pc = "enrich"
    /\ scraper = "Panther"
    /\ idx > Len(needing)
    /\ store' = merged
    /\ saves' = saves + 1
    /\ feed' = PantherFeed(merged)
    /\ exit_code' = PantherExit(updated_articles)
    /\ pc' = "done"
    /\ UNCHANGED <<scraper, run, listing, existing, merged, pantherVars, homeyVars,
                   komoodVars, retryVars, histVars>>
    /\ UNCHANGED cleanVars

\* Homey parse_new_apps, lines 64-92: no "New apps" section, return []
HomeyNoSection ==
    /\ pc = "parse"
    /\ scraper = "Homey"
    /\ ~stopped
    /\ ~listing.section
    /\ stopped' = TRUE
    /\ UNCHANGED <<scraper, store, run, pc, listing, existing, merged, idx, attempt,
                   sleeps, outcome, attempted, failed, pantherVars, homeyVars,
                   komoodVars, outVars, histVars>>
    /\ UNCHANGED cleanVars

\* Homey parse_new_apps, one iteration of the loop of lines 95-120
HomeyParseLink ==
    /\ pc = "parse"
    /\ scraper = "Homey"
    /\ ~stopped
    /\ listing.section
    /\ idx <= Len(listing.links)
    /\ LET existing_ids == {existing[i].id : i \in 1..Len(existing)}
           st == parse_new_apps_link(listing.links[idx], existing_ids,
                                     [urls |-> new_app_urls, stopped |-> FALSE])
       IN /\ new_app_urls' = st.urls
          /\ stopped' = st.stopped
    /\ idx' = idx + 1
    /\ UNCHANGED <<scraper, store, run, pc, listing, existing, merged, new_apps,
                   attempt, sleeps, outcome, attempted, failed, pantherVars, komoodVars,
                   outVars, histVars>>
    /\ UNCHANGED cleanVars

\* Homey main, lines 322-329: parse_new_apps has returned
HomeyParsed ==
    /\ pc = "parse"
    /\ scraper = "Homey"
    /\ stopped \/ (listing.section /\ idx > Len(listing.links))
    /\ idx' = 1
    /\ stopped' = FALSE
    /\ pc' = "enrich"
    /\ UNCHANGED <<scraper, store, run, listing, existing, merged, attempt, sleeps,
                   outcome, attempted, failed, pantherVars, homeyVars, komoodVars,
                   outVars, histVars>>
    /\ UNCHANGED cleanVars

\* Homey main, lines 331-340, one attempt of fetch_app_details_with_retry
\* (lines 241-253) for the url the loop is at
HomeyAttempt ==
    /\ pc = "enrich"
    /\ scraper = "Homey"
    /\ idx <= Len(new_app_urls)
    /\ LET url == new_app_urls[idx]
       IN \E r \in AppDetails(url) :
           /\ attempted' = IF attempt = 1 THEN Append(attempted, AppId(url)) ELSE attempted
           /\ outcome' = details_outcome(r)
           /\ LET step == retry_step(details_outcome(r), attempt)
                  slept == IF attempt = 1 THEN 0 ELSE sleeps
              IN IF step = "return"
                 THEN /\ new_apps' = Append(new_apps, AppRow(r, url, run))
                      /\ idx' = idx + 1
                      /\ attempt' = 1
                      /\ sleeps' = slept
                      /\ UNCHANGED <<failed, pc>>
                 ELSE IF step = "sleep"
                 THEN /\ attempt' = attempt + 1
                      /\ sleeps' = slept + 1
                      /\ UNCHANGED <<new_apps, idx, failed, pc>>
                 ELSE /\ idx' = idx + 1
                      /\ attempt' = 1
                      /\ sleeps' = slept
                      /\ failed' = failed \cup {AppId(url)}
                      /\ pc' = after_failed_item
                      /\ UNCHANGED new_apps
    /\ UNCHANGED <<scraper, store, run, listing, existing, merged, new_app_urls,
                   stopped, pantherVars, komoodVars, outVars, histVars>>
    /\ UNCHANGED cleanVars

\* Homey main, lines 344-369: merge, trim, save_apps, generate_rss_feed, sys.exit
HomeyFinish ==
    /\ pc = "enrich"
    /\ scraper = "Homey"
    /\ idx > Len(new_app_urls)
    /\ LET list == TrimApps(Merge(new_apps, existing))
       IN /\ merged' = list
          /\ store' = list
          /\ feed' = HomeyFeed(list)
    /\ saves' = saves + 1
    /\ exit_code' = HomeyExit(new_apps)
    /\ pc' = "done"
    /\ UNCHANGED <<scraper, run, listing, existing, pantherVars, homeyVars,
                   komoodVars, retryVars, histVars>>
    /\ UNCHANGED cleanVars

\* fetch_all_products without the safety limit of lines 148-151
no_page_limit(next_page) == FALSE

\* fetch_all_products, line 149: the safety limit, tested on the page to fetch next
page_limit_reached(next_page) == next_page > PAGE_LIMIT

\* Komood fetch_all_products, one iteration of the loop of lines 59-151
KomoodFetchPage ==
    /\ pc \in {"loaded", "paging"}
    /\ scraper = "Komood"
    /\ \E api \in IF pc = "loaded" THEN KomoodApis ELSE {listing} :
        /\ listing' = api
        /\ same_listing' = IF pc = "loaded" THEN run > 1 /\ api = listing
                           ELSE same_listing
        /\ requested' = requested + 1
        /\ IF api.error_at = page
           THEN /\ fetch_failed' = TRUE
                /\ pc' = "fetched"
                /\ UNCHANGED <<all_products, page>>
           ELSE LET products == IF page <= Len(api.pages) THEN api.pages[page] ELSE << >>
                IN IF products = << >>
                   THEN /\ pc' = "fetched"
                        /\ UNCHANGED <<all_products, page, fetch_failed>>
                   ELSE /\ all_products' = parse_products(products, 1, all_products)
                        /\ page' = page + 1
                        /\ pc' = IF page_limit_reached(page + 1) THEN "fetched" ELSE "paging"
                        /\ UNCHANGED fetch_failed
    /\ UNCHANGED <<scraper, store, run, existing, merged, new_products, pantherVars,
                   homeyVars, retryVars, outVars, prev_all_ok, prev_fits, prev_failed>>
    /\ UNCHANGED cleanVars

\* Komood main, lines 249-283: new products, merge, save_products,
\* generate_rss_feed, sys.exit
KomoodFinish ==
    /\ pc = "fetched"
    /\ scraper = "Komood"
    /\ LET existing_ids == {existing[i].id : i \in 1..Len(existing)}
           fresh == find_new_products(all_products, existing_ids, run)
           list == Merge(fresh, existing)
       IN /\ new_products' = fresh
          /\ merged' = list
          /\ store' = list
          /\ feed' = KomoodFeed(list)
          /\ exit_code' = KomoodExit(fresh)
    /\ saves' = saves + 1
    /\ pc' = "done"
    /\ UNCHANGED <<scraper, run, listing, existing, all_products, page, requested,
                   fetch_failed, pantherVars, homeyVars, retryVars, histVars>>
    /\ UNCHANGED cleanVars

\* the scheduler starts main() again; what the next run's properties need of
\* this one is kept
NextRun ==
    /\ pc \in {"done", "crashed"}
    /\ run < MaxRuns
    /\ run' = run + 1
    /\ pc' = "start"
    /\ existing' = << >>
    /\ new_articles' = << >>
    /\ new_app_urls' = << >>
    /\ new_apps' = << >>
    /\ all_products' = << >>
    /\ new_products' = << >>
    /\ page' = 1
    /\ requested' = 0
    /\ fetch_failed' = FALSE
    /\ merged' = << >>
    /\ needing' = << >>
    /\ idx' = 1
    /\ stopped' = FALSE
    /\ attempt' = 1
    /\ sleeps' = 0
    /\ outcome' = ""
    /\ attempted' = << >>
    /\ failed' = {}
    /\ updated_articles' = << >>
    /\ saves' = 0
    /\ feed' = << >>
    /\ exit_code' = -1
    /\ prev_all_ok' = (/\ pc = "done"
                       /\ Len(updated_articles) = Len(needing)
                       /\ Len(new_apps) = Len(new_app_urls))
    /\ prev_fits' = ((scraper = "Homey" /\ pc = "done") =>
                        /\ HomeyFits(listing, existing)
                        /\ Len(new_apps) + Len(existing) <= MAX_APPS)
    /\ prev_failed' = IF pc # "done" THEN {}
                      ELSE IF scraper = "Panther"
                      THEN failed \ {existing[i].url : i \in 1..Len(existing)}
                      ELSE failed
    /\ UNCHANGED <<scraper, store, listing, same_listing>>
    /\ UNCHANGED cleanVars

Next ==
    \/ Load
    \/ FetchListing
    \/ FetchListingRaises
    \/ PantherParseItem
    \/ PantherMerge
    \/ PantherAttempt
    \/ PantherFinish
    \/ HomeyNoSection
    \/ HomeyParseLink
    \/ HomeyParsed
    \/ HomeyAttempt
    \/ HomeyFinish
    \/ KomoodFetchPage
    \/ KomoodFinish
    \/ NextRun

Spec == Init /\ [][Next]_vars

----------------------------------------------------------------------------
(* One run of the Komood scraper.  The loop of fetch_all_products is       *)
(* sequential code of a running process and fetch_json returns or raises   *)
(* (requests.get has a timeout), so an iteration that can run does run.    *)

InitKomood == Init /\ scraper = "Komood"

NextKomood == Load \/ KomoodFetchPage \/ KomoodFinish

SpecKomood == InitKomood /\ [][NextKomood]_vars /\ WF_vars(KomoodFetchPage)

----------------------------------------------------------------------------
(* clean_product_id on its own: the handles a product may be listed under *)

\* the longest handle, in tokens
MaxHandle == 5

Handles == SeqsUpTo({"ausverkauft", "-", "t", "shirt", "x"}, MaxHandle)

InitClean ==
    /\ scraper = "Komood"
    /\ store = << >>
    /\ NotStarted
    /\ raw_handle \in Handles
    /\ product_ids = << >>

\* fetch_all_products, line 79, for the handle as it is, for the handle with
\* the sold-out marker in front and for the handle with the format suffix
CleanProductId ==
    /\ pc = "start"
    /\ product_ids' = [plain |-> clean_product_id(raw_handle),
                       sold_out |-> clean_product_id(SoldOutPrefix \o raw_handle),
                       shirt |-> clean_product_id(raw_handle \o ShirtSuffix)]
    /\ pc' = "cleaned"
    /\ UNCHANGED <<scraper, store, run, listing, existing, merged, raw_handle,
                   pantherVars, homeyVars, komoodVars, retryVars, outVars, histVars>>

\* fetch_all_products, lines 74-144, and main, lines 252-257, when the known
\* ids are the id of the handle as it is and the API lists the product with
\* the sold-out marker
Relisted ==
    /\ pc = "cleaned"
    /\ LET existing_ids == {product_ids.plain} \ {<< >>}
           products == <<Product(SoldOutPrefix \o raw_handle, <<"T">>, 0, "")>>
           found == parse_products(products, 1, << >>)
       IN /\ all_products' = found
          /\ new_products' = find_new_products(found, existing_ids, run)
    /\ pc' = "relisted"
    /\ UNCHANGED <<scraper, store, run, listing, existing, merged, page, requested,
                   fetch_failed, cleanVars, pantherVars, homeyVars, retryVars,
                   outVars, histVars>>

NextClean == CleanProductId \/ Relisted

SpecClean == InitClean /\ [][NextClean]_vars

----------------------------------------------------------------------------
(* Properties *)

\* the deduplication key of a row: the article URL, the app id, the product id
RowId(row) == IF scraper = "Panther" THEN row.url ELSE row.id

RowIds(list) == [i \in 1..Len(list) |-> RowId(list[i])]

\* the row is pending: its description is the empty string
Pending(row) == row.description = IF scraper = "Komood" THEN << >> ELSE ""

\* the rows this run made of what it discovered, in the order it merged them
NewRows ==
    IF scraper = "Panther" THEN new_articles
    ELSE IF scraper = "Homey" THEN new_apps
    ELSE new_products

\* the candidates discovery handed to the run
Discovered ==
    IF scraper = "Panther" THEN RowIds(new_articles)
    ELSE IF scraper = "Homey" THEN [i \in 1..Len(new_app_urls) |-> AppId(new_app_urls[i])]
    ELSE RowIds(new_products)

\* the feed entry id a row is rendered with
FeedEntry(row) ==
    IF scraper = "Homey" THEN to_locale_agnostic_url(row.url) ELSE row.url

Capped == scraper \in {"Panther", "Homey"}

\* the run has saved: merged is the list it passed to save, existing the list
\* it loaded
Saved == pc = "done"

\* C1: the list passed to save never holds two rows with the same id (every
\* behaviour starts from a stored list with unique ids).
C1_Dedup == Saved => NoDuplicates(RowIds(merged))

\* C2: the saved list is a prefix of this run's new rows, in discovery order,
\* followed by the loaded list in its stored order; without a cap it is the
\* whole concatenation, with a cap nothing but a tail is missing.
C2_Order ==
    Saved =>
        LET all == RowIds(NewRows) \o RowIds(existing)
        IN /\ IsPrefix(RowIds(merged), all)
           /\ Len(merged) = Len(all) \/ (Capped /\ Len(merged) = MAX_ARTICLES)
           /\ scraper = "Homey" =>
                \A i, j \in 1..Len(new_apps) :
                    i < j => \E k, l \in 1..Len(new_app_urls) :
                                /\ k < l
                                /\ new_app_urls[k] = new_apps[i].url
                                /\ new_app_urls[l] = new_apps[j].url

\* C2 happens: new rows in front of stored rows, and the cap drops a stored row
C2_Witness ==
    /\ Saved
    /\ Capped
    /\ Len(NewRows) >= 2
    /\ Len(existing) >= 1
    /\ Len(merged) < Len(NewRows) + Len(existing)

\* C3: every list a capped scraper saves has at most 50 rows.
C3_Cap == (Saved /\ Capped) => Len(store) <= MAX_ARTICLES /\ Len(store) <= MAX_APPS

\* C3 happens: new and stored rows together exceed the cap
C3_Witness ==
    /\ Saved
    /\ Capped
    /\ Len(NewRows) + Len(existing) > MAX_ARTICLES
    /\ Len(store) = MAX_ARTICLES

\* C4: a row loaded with an empty description is still in the saved list and
\* was handed to enrichment in this run, unless the cap cut it off.
C4_PendingRetry ==
    Saved =>
        \A i \in 1..Len(existing) :
            LET at == Len(NewRows) + i
            IN (Pending(existing[i]) /\ (Capped => at <= MAX_ARTICLES)) =>
                    /\ at <= Len(merged)
                    /\ RowId(merged[at]) = RowId(existing[i])
                    /\ RowId(existing[i]) \in Range(attempted)

\* C5: a newly discovered item whose MAX_RETRIES attempts all failed is saved
\* by this run with an empty description, is not in the feed, and is handed to
\* enrichment again by the next run.
C5_FailedItemKept ==
    /\ Saved =>
        \A id \in failed :
            id \in Range(Discovered) =>
                \E i \in 1..Len(merged) :
                    /\ RowId(merged[i]) = id
                    /\ Pending(merged[i])
                    /\ FeedEntry(merged[i]) \notin Range(feed)
    /\ (Saved /\ run > 1) =>
        \A id \in prev_failed : id \in Range(attempted)

\* C6 as stated: when the previous run completed against the same listing with
\* every enrichment succeeding, this run discovers no new candidate.
C6_Idempotent ==
    (Saved /\ run > 1 /\ same_listing /\ prev_all_ok) => Discovered = << >>

\* C6 as amended: the same, when the previous run met no cap: its listing
\* showed at most MAX_APPS different unknown app links and its merged list was
\* not truncated (Homey; Panther and Komood without condition).
C6_IdempotentWithinCap ==
    (Saved /\ run > 1 /\ same_listing /\ prev_all_ok /\ prev_fits) => Discovered = << >>

\* C6 happens: a second Homey run over the listing whose apps the first run stored
C6_Witness ==
    /\ Saved
    /\ scraper = "Homey"
    /\ run > 1
    /\ same_listing
    /\ prev_all_ok
    /\ prev_fits
    /\ \E i \in 1..Len(existing) : existing[i].timestamp = run - 1
    /\ Discovered = << >>

\* the entries of the news page located before the first entry whose URL is
\* known that have a title and a URL, as <<URL, title>>
EntriesBeforeKnown(html, rows) ==
    LET existing_urls == {rows[i].url : i \in 1..Len(rows)}
        Known(item) == item.link /\ AbsoluteUrl(item.href) \in existing_urls
        stops == {i \in 1..Len(html) : Known(html[i])}
        first == IF stops = {} THEN Len(html) + 1
                 ELSE CHOOSE i \in stops : \A j \in stops : i <= j
        entries == SelectSeq(SubSeq(html, 1, first - 1),
                             LAMBDA item : item.link /\ item.spans >= 2 /\ item.title # "")
    IN [i \in 1..Len(entries) |-> <<AbsoluteUrl(entries[i].href), entries[i].title>>]

\* C7: parse_news_items returns exactly the entries with a title and a URL
\* located before the first entry whose URL is known, in listing order, cut to
\* the first MAX_ARTICLES.
C7_StopAtKnown ==
    (scraper = "Panther" /\ pc \in {"enrich", "done"}) =>
        [i \in 1..Len(new_articles) |-> <<new_articles[i].url, new_articles[i].title>>]
            = Take(EntriesBeforeKnown(listing, existing), MAX_ARTICLES)

\* C7 happens: an unknown entry above a known one above another unknown one
C7_Witness ==
    /\ scraper = "Panther"
    /\ pc = "enrich"
    /\ Len(new_articles) = 1
    /\ \E k \in 2..(Len(listing) - 1) :
        /\ listing[k].link
        /\ AbsoluteUrl(listing[k].href) \in {existing[i].url : i \in 1..Len(existing)}
        /\ listing[k + 1].link /\ listing[k + 1].title # ""
        /\ AbsoluteUrl(listing[k + 1].href) \notin {existing[i].url : i \in 1..Len(existing)}

\* the products of pages lo..hi of the API, in page-then-position order
RECURSIVE PageProducts(_, _, _)
PageProducts(pages, lo, hi) ==
    IF lo > hi THEN << >>
    ELSE IF lo = hi THEN pages[lo]
    ELSE PageProducts(pages, lo, (lo + hi) \div 2)
         \o PageProducts(pages, (lo + hi) \div 2 + 1, hi)

\* the products of the first n pages with a non-empty id and title whose
\* cleaned id is not stored, as <<id, handle>>
UnknownProducts(pages, n, rows) ==
    LET existing_ids == {rows[i].id : i \in 1..Len(rows)}
        fresh == SelectSeq(PageProducts(pages, 1, n),
                           LAMBDA p : /\ clean_product_id(p.handle) # << >>
                                      /\ clean_title(p.title) # << >>
                                      /\ clean_product_id(p.handle) \notin existing_ids)
    IN [i \in 1..Len(fresh) |-> <<clean_product_id(fresh[i].handle), fresh[i].handle>>]

\* the first empty page of the API (the page after the last one, if none is)
FirstEmptyPage(pages) ==
    CHOOSE i \in 1..(Len(pages) + 1) :
        /\ i > Len(pages) \/ pages[i] = << >>
        /\ \A j \in 1..(i - 1) : pages[j] # << >>

\* the page at which fetch_all_products leaves its loop: the first empty page,
\* the first page whose fetch raises, or the last page within the limit
LastRequestedPage(api) ==
    LET empty == FirstEmptyPage(api.pages)
        raised == IF api.error_at # 0 /\ api.error_at < empty THEN api.error_at ELSE empty
    IN IF raised > PAGE_LIMIT THEN PAGE_LIMIT ELSE raised

NewProductIds == [i \in 1..Len(new_products) |-> <<new_products[i].id, new_products[i].url>>]

\* C8 as stated: in a run whose fetches all succeed, the new products are the
\* unknown products of the pages before the first empty page, and no page
\* after the first empty page is requested.
C8_SkipKnown ==
    (scraper = "Komood" /\ Saved /\ ~fetch_failed) =>
        /\ NewProductIds
            = UnknownProducts(listing.pages, FirstEmptyPage(listing.pages) - 1, existing)
        /\ requested <= FirstEmptyPage(listing.pages)

\* C8 as amended: the new products are the unknown products of the pages
\* before the first empty page, the first page whose fetch raises, or the end
\* of page 50, whichever comes first; no later page is requested.
C8_SkipKnownFetched ==
    (scraper = "Komood" /\ Saved) =>
        LET last == LastRequestedPage(listing)
            scanned == IF last = PAGE_LIMIT /\ ~fetch_failed
                          /\ FirstEmptyPage(listing.pages) > PAGE_LIMIT
                       THEN PAGE_LIMIT ELSE last - 1
        IN /\ NewProductIds = UnknownProducts(listing.pages, scanned, existing)
           /\ requested = last

\* C8 happens: a stored product and a new one on page 1, a new one on page 2,
\* page 3 empty
C8_Witness ==
    /\ scraper = "Komood"
    /\ Saved
    /\ Len(listing.pages) >= 3
    /\ Len(listing.pages[1]) = 2
    /\ clean_product_id(listing.pages[1][1].handle) \in {existing[i].id : i \in 1..Len(existing)}
    /\ listing.pages[3] = << >>
    /\ requested = 3
    /\ Len(new_products) = 2

\* C9: a completed run whose saved list differs from the list it loaded exits
\* with 0; it exits with 1 only when the two lists are identical.
C9_ExitCode ==
    Saved => /\ merged # existing => exit_code = 0
             /\ exit_code = 1 => merged = existing

\* C10: after a failed listing or page fetch the run never saves and the
\* stored list stays as it was loaded.
C10_FetchErrorFatal ==
    (pc = "crashed" \/ fetch_failed) => (saves = 0 /\ store = existing)

\* the items this run's enrichment loop iterates over, in loop order
ToEnrich ==
    IF scraper = "Panther" THEN [k \in 1..Len(needing) |-> merged[needing[k]].url]
    ELSE IF scraper = "Homey" THEN [k \in 1..Len(new_app_urls) |-> AppId(new_app_urls[k])]
    ELSE << >>

\* C11: a run whose enrichment failed for an item did not end there: the items
\* handed to enrichment so far are the first ones of the loop's list, in list
\* order, and at the save they are all of them.
C11_FailureIsolated ==
    /\ pc = "crashed" => (failed = {} /\ attempted = << >>)
    /\ (Capped /\ pc = "enrich") => IsPrefix(attempted, ToEnrich)
    /\ (Capped /\ Saved) => (attempted = ToEnrich /\ saves = 1)

\* C11 happens: the first item failed every attempt, a later one was enriched,
\* and the run saved and rendered the later one
C11_Witness ==
    /\ Capped
    /\ Saved
    /\ Len(attempted) >= 2
    /\ attempted[1] \in failed
    /\ attempted[2] \notin failed
    /\ saves = 1
    /\ feed # << >>

\* the current step is an attempt of *_with_retry
Attempting == pc = "enrich" /\ attempted' # << >> /\ outcome' # "" /\ pc' # "done"

\* the call of *_with_retry the step belongs to returned a result, which main stored
ReturnedResult ==
    IF scraper = "Panther"
    THEN /\ updated_articles' = Append(updated_articles, needing[idx])
         /\ merged'[needing[idx]].description # ""
    ELSE /\ Len(new_apps') = Len(new_apps) + 1
         /\ new_apps'[Len(new_apps')].name # ""
         /\ new_apps'[Len(new_apps')].url = new_app_urls[idx]

\* the step stored nothing
StoredNothing == UNCHANGED <<merged, updated_articles, new_apps>>

\* C12: every attempt of a call is numbered 1..MAX_RETRIES; the call returns
\* at the first attempt with a non-empty primary field; an attempt that raised
\* and one that found no primary field alike are followed by a sleep and the
\* next attempt when fewer than MAX_RETRIES were made, and by None without
\* another sleep otherwise.
C12_BoundedRetry ==
    [][Attempting =>
        LET id == ToEnrich[idx]
            slept == IF attempt = 1 THEN 0 ELSE sleeps
        IN /\ attempt \in 1..MAX_RETRIES
           /\ slept = attempt - 1
           /\ outcome' = "ok" =>
                /\ ReturnedResult
                /\ idx' = idx + 1
                /\ sleeps' = attempt - 1
                /\ failed' = failed
           /\ outcome' \in {"raised", "empty"} =>
                /\ StoredNothing
                /\ IF attempt < MAX_RETRIES
                   THEN /\ idx' = idx
                        /\ attempt' = attempt + 1
                        /\ sleeps' = attempt
                        /\ failed' = failed
                   ELSE /\ idx' = idx + 1
                        /\ sleeps' = MAX_RETRIES - 1
                        /\ failed' = failed \cup {id}
    ]_vars

\* C12 happens: a call whose first attempt raised, whose second found no
\* primary field and whose third succeeded after two sleeps, and a call that
\* returned None
C12_Witness ==
    /\ Capped
    /\ pc = "enrich"
    /\ outcome = "ok"
    /\ sleeps = MAX_RETRIES - 1
    /\ failed # {}
    /\ Len(attempted) >= 2

\* the row has the field generate_rss_feed tests: the description, for Homey
\* the name
HasPrimaryField(row) == IF scraper = "Homey" THEN row.name # "" ELSE ~Pending(row)

\* the feed entry ids of the rows of the saved list that have the primary
\* field, in list order
EntriesInListOrder ==
    LET shown == SelectSeq(merged, HasPrimaryField)
    IN [i \in 1..Len(shown) |-> FeedEntry(shown[i])]

\* C13: the entries of the rendered feed are the records with the primary
\* field, in list order, and the saved list holds every record.
C13_FeedInListOrder ==
    Saved => (feed = EntriesInListOrder /\ store = merged)

\* C14: in a capped scraper every new item of the run is in the list the run
\* saves, at the position the merge gave it; the truncation cut off none.
C14_NewItemsKept ==
    (Saved /\ Capped) =>
        /\ Len(NewRows) <= Len(store)
        /\ \A i \in 1..Len(NewRows) : RowId(store[i]) = RowId(NewRows[i])

\* C14 happens: as many new items as the cap allows, and every stored record
\* dropped for them
C14_Witness ==
    /\ Saved
    /\ Capped
    /\ Len(NewRows) = MAX_ARTICLES
    /\ Len(existing) >= 1
    /\ Len(store) = MAX_ARTICLES
    /\ \A i \in 1..Len(existing) : RowId(existing[i]) \notin Range(RowIds(store))

\* the urls the news page lists, made absolute
ListedUrls ==
    {AbsoluteUrl(listing[i].href) : i \in {j \in 1..Len(listing) : listing[j].link}}

\* C15: a record loaded with a non-empty description that is still in the
\* saved list is there with every field as loaded, and (Panther) is not one of
\* the articles handed to enrichment.
C15_EnrichedRecordFrozen ==
    Saved =>
        \A i \in 1..Len(existing) :
            LET at == Len(NewRows) + i
            IN (~Pending(existing[i]) /\ at <= Len(merged)) =>
                    /\ merged[at] = existing[i]
                    /\ store[at] = existing[i]
                    /\ scraper = "Panther" => at \notin Range(needing)

\* C15 happens: a Panther run that enriched a new article and found a stored,
\* enriched article listed again
C15_Witness ==
    /\ Saved
    /\ scraper = "Panther"
    /\ updated_articles # << >>
    /\ \E i \in 1..Len(existing) :
            /\ ~Pending(existing[i])
            /\ existing[i].url \in ListedUrls
            /\ Len(NewRows) + i <= Len(store)

\* the step of a run that saves, in a run that discovered nothing
SavesWithoutNewItem == pc # "done" /\ pc' = "done" /\ Discovered' = << >>

\* the list loaded is the list the file was written from, and the list saved
\* is the list loaded
SavedAsLoaded == existing = store /\ store' = existing

\* C16 as stated: a run that discovers no new item loads the saved list as it
\* was saved and saves the list it loaded, every field as loaded.
C16_RoundTrip == [][SavesWithoutNewItem => SavedAsLoaded]_vars

\* C16 as amended: the same, when the run enriched no stored article either
\* (Panther fetches the stored articles that have no description).
C16_RoundTripNothingEnriched ==
    [][(SavesWithoutNewItem /\ updated_articles' = << >>) => SavedAsLoaded]_vars

\* C16 happens: a run with nothing new has saved a list whose file has a quoted
\* field and an empty field
C16_Witness ==
    /\ Saved
    /\ Discovered = << >>
    /\ updated_articles = << >>
    /\ store = existing
    /\ \E i \in 1..Len(tsv) : \E j \in 1..Len(tsv[i]) : tsv[i][j] = QUOTE
    /\ \E i \in 1..Len(existing) : existing[i].image = ""

\* C17 as stated: for every handle the id does not change when the sold-out
\* marker is put in front or the format suffix is put behind, and the product
\* listed with the sold-out marker is not a new product.
C17_Normalization ==
    /\ pc \in {"cleaned", "relisted"} =>
            /\ product_ids.sold_out = product_ids.plain
            /\ product_ids.shirt = product_ids.plain
    /\ pc = "relisted" => new_products = << >>

\* C17 as amended: the id does not change when the sold-out marker is put in
\* front of a handle that does not start with it, nor when the format suffix
\* is put behind a handle that does not end with it and is not "ausverkauft";
\* the product of a handle that does not start with the marker is not new
\* when it is listed with the marker.
C17_NormalizationOnce ==
    /\ (pc \in {"cleaned", "relisted"} /\ ~StartsWith(raw_handle, SoldOutPrefix)) =>
            product_ids.sold_out = product_ids.plain
    /\ (/\ pc \in {"cleaned", "relisted"}
        /\ ~EndsWith(raw_handle, ShirtSuffix)
        /\ raw_handle # <<"ausverkauft">>) =>
            product_ids.shirt = product_ids.plain
    /\ (pc = "relisted" /\ ~StartsWith(raw_handle, SoldOutPrefix)) =>
            new_products = << >>

\* C17 happens: a product with a format suffix in its handle, stored under its
\* id, was listed with the sold-out marker, parsed, and found known
C17_Witness ==
    /\ pc = "relisted"
    /\ ~StartsWith(raw_handle, SoldOutPrefix)
    /\ EndsWith(raw_handle, ShirtSuffix)
    /\ product_ids.plain # << >>
    /\ product_ids.plain # raw_handle
    /\ Len(all_products) = 1
    /\ all_products[1].id = product_ids.plain
    /\ new_products = << >>

\* fetch_all_products is in its loop
Fetching == scraper = "Komood" /\ pc \in {"loaded", "paging"}

\* fetch_all_products has returned
Fetched == scraper = "Komood" /\ pc \in {"fetched", "done"}

\* the products fetch_all_products has collected, as <<id, handle>>
Collected == [i \in 1..Len(all_products) |-> <<all_products[i].id, all_products[i].url>>]

\* the loop stops where it should: in the loop no page requested so far was
\* empty or failed and the page to request is within the limit; after the
\* loop the last page requested was empty, or its fetch failed, or it was
\* page PAGE_LIMIT
StopsAtFirst ==
    /\ (scraper = "Komood" /\ pc = "paging") =>
            /\ requested = page - 1
            /\ page <= PAGE_LIMIT
            /\ \A k \in 1..requested :
                    listing.error_at # k /\ k <= Len(listing.pages) /\ listing.pages[k] # << >>
    /\ Fetched =>
            /\ requested >= 1
            /\ \A k \in 1..(requested - 1) :
                    listing.error_at # k /\ k <= Len(listing.pages) /\ listing.pages[k] # << >>
            /\ \/ fetch_failed /\ listing.error_at = requested /\ page = requested
               \/ /\ ~fetch_failed
                  /\ page = requested
                  /\ requested > Len(listing.pages) \/ listing.pages[requested] = << >>
               \/ ~fetch_failed /\ requested = PAGE_LIMIT /\ page = PAGE_LIMIT + 1

\* C18: fetch_all_products always returns; it never requests more than
\* PAGE_LIMIT pages; it leaves its loop at the first empty page, the first
\* failed fetch or after page PAGE_LIMIT, and returns the products of the
\* pages it got before.
C18_PaginationTerminates ==
    /\ [](scraper = "Komood" => requested <= PAGE_LIMIT)
    /\ []StopsAtFirst
    /\ [](Fetched => Collected = UnknownProducts(listing.pages, page - 1, << >>))
    /\ (Fetching ~> Fetched)

\* C18 happens: the API never returned an empty page and the loop was left
\* after page PAGE_LIMIT with the products of all its pages
C18_Witness ==
    /\ scraper = "Komood"
    /\ pc = "fetched"
    /\ ~fetch_failed
    /\ requested = PAGE_LIMIT
    /\ Len(listing.pages) > PAGE_LIMIT
    /\ \A k \in 1..Len(listing.pages) : listing.pages[k] # << >>
    /\ Len(all_products) = PAGE_LIMIT

====
